---- MODULE Spec2Model ----
\* A model of bot.py: the Telegram bot that forwards text messages to the
\* Gemini generateContent endpoint, logs every request in SQLite and runs
\* inside a FastAPI lifespan.
\*
\* The Russian string literals of the source are written in Latin
\* transliteration, since the module is ASCII only.
EXTENDS Integers, Sequences, FiniteSets, Bags, TLC

VARIABLES
    life,       \* position of lifespan(): "startup", "db_failed", "serving", "closing", "closed"
    poll,       \* position of the start_bot() task
    proc,       \* "running" or "exited" (os._exit, or the server has returned)
    closes,     \* one record per bot.session.close() call, in call order
    store,      \* committed rows of table users, a bag of [user_id, message]
    recorded,   \* history: user ids of the save_user_request calls that committed
    h,          \* the handle_message tasks, one per slot
    dispatched, \* number of text updates handed to handle_message so far
    health,     \* the last answer of GET /
    g           \* one stand-alone call of get_gemini_response

vars == <<life, poll, proc, closes, store, recorded, h, dispatched, health, g>>

-----------------------------------------------------------------------------
\* Bounds of the model.

\* Distinct Telegram user ids that send messages.
NumUsers == 2
\* Text updates delivered over one run of the process.
MaxUpdates == 2

Users == 1..NumUsers
\* handle_message tasks that may be in flight at the same time.
Slots == {"t1", "t2"}

-----------------------------------------------------------------------------
\* String literals of bot.py.

\* bot.py:100, the default of the last .get
NoAnswerText == "Ne udalos poluchit otvet"
\* bot.py:103
GeminiErrorText == "Izvinite, proizoshla oshibka pri obrabotke zaprosa. Pozhalujsta, poprobujte pozzhe."
\* bot.py:135
HandlerErrorText == "Proizoshla oshibka pri obrabotke vashego zaprosa"

\* Inbound texts: a question and the reserved phrase of the specification.
\* Stand-alone calls also get the phrase in lower case and the empty prompt
\* (F.text does not match an empty text).
PlainText == "What is 2+2?"
TriggerText == "Zadat vopros"
TriggerLower == "zadat vopros"
Texts == {PlainText, TriggerText}
Prompts == Texts \cup {TriggerLower, ""}

-----------------------------------------------------------------------------
\* Python values as they come out of response.json(): [k |-> kind, v |-> payload].

J(k, v) == [k |-> k, v |-> v]
Null == J("null", 0)
Num(n) == J("num", n)
Str(s) == J("str", s)
List(s) == J("list", s)
EmptyDict == J("dict", [f \in {} |-> Null])
Dict1(key, val) == J("dict", [f \in {key} |-> val])

\* The outcome of evaluating a Python expression: a value, or an exception.
Ret(v) == [exc |-> "", val |-> v]
Raise(e) == [exc |-> e, val |-> Null]

\* The first character of the strings the model puts in a response.
FirstChar(s) == IF s = "4" THEN "4" ELSE "?"

\* x.get(key, default)
PyGet(x, key, default) ==
    IF x.k = "dict"
    THEN Ret(IF key \in DOMAIN x.v THEN x.v[key] ELSE default)
    ELSE Raise("AttributeError")

\* x[0]
PyIndex0(x) ==
    CASE x.k = "list" -> IF Len(x.v) = 0 THEN Raise("IndexError") ELSE Ret(x.v[1])
      [] x.k = "str"  -> IF x.v = "" THEN Raise("IndexError") ELSE Ret(Str(FirstChar(x.v)))
      [] x.k = "dict" -> Raise("KeyError")
      [] OTHER        -> Raise("TypeError")

\* The same two, applied to the outcome r of the expression to their left:
\* an exception raised there ends the evaluation.
Get(r, key, default) == IF r.exc # "" THEN r ELSE PyGet(r.val, key, default)
Index0(r) == IF r.exc # "" THEN r ELSE PyIndex0(r.val)

-----------------------------------------------------------------------------
\* get_gemini_response

\* data = {"contents": [{"parts": [{"text": message_text}]}]}
RequestBody(message_text) ==
    Dict1("contents", List(<<Dict1("parts", List(<<Dict1("text", Str(message_text))>>))>>))

\* result.get('candidates', [{}])[0].get('content', {}).get('parts', [{}])[0].get('text', "...")
ExtractText(result) ==
    LET candidates == Get(Ret(result), "candidates", List(<<EmptyDict>>))
        candidate  == Index0(candidates)
        content    == Get(candidate, "content", EmptyDict)
        parts      == Get(content, "parts", List(<<EmptyDict>>))
        part       == Index0(parts)
    IN  Get(part, "text", Str(NoAnswerText))

\* response.raise_for_status()
raise_for_status(status) ==
    IF status >= 400 THEN Raise("ClientResponseError") ELSE Ret(Null)

\* The body of the try block for one outcome o of the external call.
GeminiTry(o) ==
    CASE o.kind = "conn_error" -> Raise("ClientConnectionError")
      [] o.kind = "timeout"    -> Raise("TimeoutError")
      [] o.kind = "response"   ->
            IF raise_for_status(o.status).exc # "" THEN raise_for_status(o.status)
            ELSE IF ~o.json THEN Raise("ContentTypeError")
            ELSE ExtractText(o.body)

\* except Exception catches whatever the try block raises: every exception
\* of GeminiTry is an Exception.
get_gemini_response(message_text, o) ==
    LET r == GeminiTry(o)
    IN  IF r.exc # "" THEN Ret(Str(GeminiErrorText)) ELSE r

-----------------------------------------------------------------------------
\* The outcomes of the external call the model draws from.

Scalars == {Null, Num(5), Str("4"), Str("")}
Leaves == Scalars \cup {List(<<>>), EmptyDict}
NotDict == Leaves \ {EmptyDict}
NotList == Leaves \ {List(<<>>)}

PartVals == {EmptyDict} \cup {Dict1("text", t) : t \in Leaves} \cup NotDict
PartsVals == {List(<<>>)} \cup {List(<<p>>) : p \in PartVals}
                \cup {List(<<Dict1("text", Str("4")), Dict1("text", Str(""))>>)}
                \cup NotList
ContentVals == {EmptyDict} \cup {Dict1("parts", p) : p \in PartsVals} \cup NotDict
CandidateVals == {EmptyDict} \cup {Dict1("content", c) : c \in ContentVals} \cup NotDict
CandidatesVals == {List(<<>>)} \cup {List(<<c>>) : c \in CandidateVals} \cup NotList
Bodies == {EmptyDict} \cup {Dict1("candidates", c) : c \in CandidatesVals} \cup NotDict

Statuses == {200, 204, 404, 500}

Response(status, json, body) ==
    [kind |-> "response", status |-> status, json |-> json, body |-> body]
Failure(kind) == [kind |-> kind, status |-> 0, json |-> FALSE, body |-> Null]

Outcomes ==
    {Failure("conn_error"), Failure("timeout")}
        \cup {Response(s, TRUE, b) : s \in Statuses, b \in Bodies}
        \cup {Response(s, FALSE, Null) : s \in Statuses}

\* A well-formed answer whose first candidate says t.
Answer(t) ==
    Response(200, TRUE,
        Dict1("candidates", List(<<Dict1("content",
            Dict1("parts", List(<<Dict1("text", t)>>)))>>)))

-----------------------------------------------------------------------------
\* The message store.

Row(user_id, message) == [user_id |-> user_id, message |-> message]

\* INSERT INTO users (user_id, message) VALUES (?, ?); commit. dbOk is
\* whether connect, execute and commit all went through.
save_user_request_Raises(st, user_id, message, dbOk) ==
    IF dbOk
    THEN [exc |-> "", store |-> st (+) SetToBag({Row(user_id, message)}), logged |-> FALSE]
    ELSE [exc |-> "OperationalError", store |-> st, logged |-> FALSE]

save_user_request(st, user_id, message, dbOk) ==
    IF dbOk
    THEN [exc |-> "", store |-> st (+) SetToBag({Row(user_id, message)}), logged |-> FALSE]
    ELSE [exc |-> "", store |-> st, logged |-> TRUE]

\* SELECT COUNT(DISTINCT user_id) FROM users; 0 when the query fails.
get_users_count_CountsRows(st, dbOk) ==
    IF dbOk THEN BagCardinality(st) ELSE 0

get_users_count(st, dbOk) ==
    IF dbOk THEN Cardinality({r.user_id : r \in BagToSet(st)}) ELSE 0

-----------------------------------------------------------------------------
\* handle_message: one task per slot. trace lists what the task has done.

Ev(e, a, n) == [e |-> e, a |-> a, n |-> n]

HIdle == [pc |-> "idle", user_id |-> 0, text |-> "", msg_id |-> 0,
          response |-> Null, trace |-> <<>>]

\* The outcomes of the external call drawn inside handle_message: one for
\* which get_gemini_response returns a text and one for which it returns a
\* number. SpecGemini runs the function over all of Outcomes.
HandlerOutcomes ==
    {Answer(Str("4")), Answer(Num(5))}

\* Telegram sends a text only when it is a non-empty string: aiogram rejects
\* anything else before the request is made.
Sendable(content) == content.k = "str" /\ content.v # ""

\* await bot.send_chat_action(message.chat.id, ChatAction.TYPING)
AfterChatAction(ok) == IF ok THEN "save" ELSE "except"

\* await save_user_request(message.from_user.id, message.text)
AfterSave(r) == IF r.exc # "" THEN "except" ELSE "generate"

\* response = await get_gemini_response(message.text)
PromptOf(m) == m.text

AfterGenerate(r) == IF r.exc # "" THEN "except" ELSE "reply"

\* await message.reply(response): a send that quotes the inbound message.
MessageReply_Plain(m, content) == Ev("reply", content, 0)

MessageReply(m, content) == Ev("reply", content, m.msg_id)

\* await message.answer("..."): a plain send to the same chat.
MessageAnswer(m, content) == Ev("answer", content, 0)

Running == proc = "running"

Dispatch(s) ==
    /\ Running /\ poll = "polling"
    /\ h[s].pc = "idle"
    /\ dispatched < MaxUpdates
    /\ \E u \in Users, t \in Texts :
          h' = [h EXCEPT ![s] = [HIdle EXCEPT !.pc = "typing", !.user_id = u,
                                              !.text = t, !.msg_id = dispatched + 1]]
    /\ dispatched' = dispatched + 1
    /\ UNCHANGED <<life, poll, proc, closes, store, recorded, health, g>>

ChatAction(s) ==
    /\ Running /\ h[s].pc = "typing"
    /\ \E ok \in BOOLEAN :
          h' = [h EXCEPT ![s].pc = AfterChatAction(ok),
                         ![s].trace = Append(@, Ev(IF ok THEN "chat_action"
                                                         ELSE "chat_action_failed",
                                                   Null, 0))]
    /\ UNCHANGED <<life, poll, proc, closes, store, recorded, dispatched, health, g>>

Save(s) ==
    /\ Running /\ h[s].pc = "save"
    /\ \E dbOk \in BOOLEAN :
          LET m == h[s]
              r == save_user_request(store, m.user_id, m.text, dbOk)
          IN  /\ store' = r.store
              /\ recorded' = IF dbOk /\ r.exc = "" THEN recorded \cup {m.user_id}
                                                  ELSE recorded
              /\ h' = [h EXCEPT ![s].pc = AfterSave(r),
                                ![s].trace =
                                    Append(@, IF r.store # store
                                              THEN Ev("insert", Str(m.text), m.user_id)
                                              ELSE Ev("store_error", Null, 0))]
    /\ UNCHANGED <<life, poll, proc, closes, dispatched, health, g>>

Generate(s) ==
    /\ Running /\ h[s].pc = "generate"
    /\ \E o \in HandlerOutcomes :
          LET m == h[s]
              r == get_gemini_response(PromptOf(m), o)
          IN  h' = [h EXCEPT ![s].pc = AfterGenerate(r),
                             ![s].response = r.val,
                             ![s].trace = Append(@, Ev("gemini", RequestBody(PromptOf(m)), 0))]
    /\ UNCHANGED <<life, poll, proc, closes, store, recorded, dispatched, health, g>>

Reply(s) ==
    /\ Running /\ h[s].pc = "reply"
    /\ \E ok \in BOOLEAN :
          LET m == h[s]
              sent == ok /\ Sendable(m.response)
          IN  h' = [h EXCEPT ![s].pc = IF sent THEN "done" ELSE "except",
                             ![s].trace =
                                 Append(@, IF sent THEN MessageReply(m, m.response)
                                                   ELSE Ev("reply_failed", m.response, 0))]
    /\ UNCHANGED <<life, poll, proc, closes, store, recorded, dispatched, health, g>>

\* except Exception as e: logger.error(...); await message.answer(...)
Except(s) ==
    /\ Running /\ h[s].pc = "except"
    /\ \E ok \in BOOLEAN :
          LET m == h[s]
          IN  h' = [h EXCEPT ![s].pc = IF ok THEN "done" ELSE "raised",
                             ![s].trace =
                                 Append(@, IF ok THEN MessageAnswer(m, Str(HandlerErrorText))
                                                 ELSE Ev("answer_failed", Null, 0))]
    /\ UNCHANGED <<life, poll, proc, closes, store, recorded, dispatched, health, g>>

\* The task has ended (returned, or raised into the dispatcher) and is dropped.
Finish(s) ==
    /\ Running /\ h[s].pc \in {"done", "raised"}
    /\ h' = [h EXCEPT ![s] = HIdle]
    /\ UNCHANGED <<life, poll, proc, closes, store, recorded, dispatched, health, g>>

\* GET /
HNone == [ok |-> FALSE, users |-> 0]

health_check ==
    /\ Running /\ life = "serving"
    /\ \E dbOk \in BOOLEAN :
          health' = [ok |-> dbOk, users |-> get_users_count(store, dbOk)]
    /\ UNCHANGED <<life, poll, proc, closes, store, recorded, h, dispatched, g>>

-----------------------------------------------------------------------------
\* lifespan and start_bot.

Close(by) == [by |-> by, poll |-> poll, life |-> life]

\* The CREATE TABLE block, then asyncio.create_task(start_bot()) and yield.
LifespanStartup ==
    /\ Running /\ life = "startup"
    /\ \E dbOk \in BOOLEAN :
          IF dbOk
          THEN life' = "serving" /\ poll' = "scheduled" /\ proc' = proc
          ELSE life' = "db_failed" /\ poll' = poll /\ proc' = "exited"
    /\ UNCHANGED <<closes, store, recorded, h, dispatched, health, g>>

\* After the yield: bot.session.close() is called. The task made by
\* create_task has had its first run by then: the event loop runs its
\* callbacks in the order they were scheduled.
LifespanShutdown ==
    /\ Running /\ life = "serving" /\ poll # "scheduled"
    /\ closes' = Append(closes, Close("lifespan"))
    /\ life' = "closing"
    /\ UNCHANGED <<poll, proc, store, recorded, h, dispatched, health, g>>

\* The close has returned: logger.info, and the lifespan is complete.
LifespanDone ==
    /\ Running /\ life = "closing"
    /\ life' = "closed"
    /\ UNCHANGED <<poll, proc, closes, store, recorded, h, dispatched, health, g>>

\* The server returns once the lifespan has completed.
ServerExit ==
    /\ Running /\ life = "closed"
    /\ proc' = "exited"
    /\ UNCHANGED <<life, poll, closes, store, recorded, h, dispatched, health, g>>

\* start_bot runs up to await dp.start_polling(bot).
StartPolling ==
    /\ Running /\ poll = "scheduled"
    /\ poll' = "polling"
    /\ UNCHANGED <<life, proc, closes, store, recorded, h, dispatched, health, g>>

\* dp.start_polling returns: start_bot ends without touching the session.
PollingReturns ==
    /\ Running /\ poll = "polling"
    /\ poll' = "returned"
    /\ UNCHANGED <<life, proc, closes, store, recorded, h, dispatched, health, g>>

\* dp.start_polling raises: except Exception, logger.critical.
PollingFails ==
    /\ Running /\ poll = "polling"
    /\ poll' = "failed"
    /\ UNCHANGED <<life, proc, closes, store, recorded, h, dispatched, health, g>>

\* await bot.session.close() in start_bot.
StartBotClose ==
    /\ Running /\ poll = "failed"
    /\ closes' = Append(closes, Close("start_bot"))
    /\ poll' = "closing"
    /\ UNCHANGED <<life, proc, store, recorded, h, dispatched, health, g>>

\* os._exit(1)
StartBotExit ==
    /\ Running /\ poll = "closing"
    /\ poll' = "exited"
    /\ proc' = "exited"
    /\ UNCHANGED <<life, closes, store, recorded, h, dispatched, health, g>>

-----------------------------------------------------------------------------
\* The record of a stand-alone call of get_gemini_response.

GIdle == [pc |-> "idle", prompt |-> "", outcome |-> Failure("conn_error"),
          request |-> Null, result |-> Ret(Null)]

-----------------------------------------------------------------------------
\* The process: startup, the polling task, the handlers it feeds, the health
\* endpoint and both ways out.
Init ==
    /\ life = "startup" /\ poll = "none" /\ proc = "running"
    /\ closes = <<>> /\ store = EmptyBag /\ recorded = {}
    /\ h = [s \in Slots |-> HIdle] /\ dispatched = 0 /\ health = HNone
    /\ g = GIdle

Lifecycle ==
    \/ LifespanStartup
    \/ LifespanShutdown
    \/ LifespanDone
    \/ ServerExit
    \/ StartPolling
    \/ PollingReturns
    \/ PollingFails
    \/ StartBotClose
    \/ StartBotExit

\* The steps of the handle_message tasks of the slots S.
Handling(S) ==
    \/ \E s \in S : Dispatch(s)
    \/ \E s \in S : ChatAction(s)
    \/ \E s \in S : Save(s)
    \/ \E s \in S : Generate(s)
    \/ \E s \in S : Reply(s)
    \/ \E s \in S : Except(s)
    \/ \E s \in S : Finish(s)

\* The whole process from its start, handling one update at a time.
NextLife == Lifecycle \/ health_check \/ Handling({"t1"})

SpecLife == Init /\ [][NextLife]_vars

\* Message handling while the process serves: the database is initialised and
\* dp.start_polling is delivering updates.
InitServing ==
    /\ life = "serving" /\ poll = "polling" /\ proc = "running"
    /\ closes = <<>> /\ store = EmptyBag /\ recorded = {}
    /\ h = [s \in Slots |-> HIdle] /\ dispatched = 0 /\ health = HNone
    /\ g = GIdle

\* Any number of slots in flight at once.
Next == Handling(Slots) \/ health_check

Spec == InitServing /\ [][Next]_vars

-----------------------------------------------------------------------------
\* A stand-alone call of get_gemini_response: the inputs are drawn in Init.

InitGemini ==
    /\ life = "serving" /\ poll = "polling" /\ proc = "running"
    /\ closes = <<>> /\ store = EmptyBag /\ recorded = {}
    /\ h = [s \in Slots |-> HIdle] /\ dispatched = 0 /\ health = HNone
    /\ \E p \in Prompts, o \in Outcomes :
          g = [GIdle EXCEPT !.pc = "call", !.prompt = p, !.outcome = o]

GeminiCall ==
    /\ g.pc = "call"
    /\ g' = [g EXCEPT !.pc = "returned",
                      !.request = RequestBody(g.prompt),
                      !.result = get_gemini_response(g.prompt, g.outcome)]
    /\ UNCHANGED <<life, poll, proc, closes, store, recorded, h, dispatched, health>>

NextGemini == GeminiCall

SpecGemini == InitGemini /\ [][NextGemini]_vars

-----------------------------------------------------------------------------
\* Properties of handle_message (specification Spec).

Events(m) == {m.trace[i].e : i \in DOMAIN m.trace}

\* A step of handle_message raised into its try block.
Escaped(m) == Events(m) \cap {"chat_action_failed", "reply_failed"} # {}

\* Nothing failed while the message was handled.
NoFailure(m) ==
    Events(m) \cap {"chat_action_failed", "store_error",
                    "reply_failed", "answer", "answer_failed"} = {}

\* C1: whatever fails among the typing indicator, the store write, the
\* generative call and the reply, handle_message catches it, answers with the
\* generic error message and never lets an exception out, also when the send
\* of the generic error message fails.
C1_HandlerNeverPropagates ==
    \A s \in Slots :
        /\ h[s].pc # "raised"
        /\ (h[s].pc = "done" /\ Escaped(h[s]))
              => h[s].trace[Len(h[s].trace)] = Ev("answer", Str(HandlerErrorText), 0)

\* C4: a failed store write is swallowed inside save_user_request: the next
\* thing the handler does is call the generative client with the message
\* text, then attempt the reply with what the client returned; the generic
\* error message is sent only after a failed reply, never for the store error.
C4_StoreFailureDoesNotBlock ==
    \A s \in Slots :
        LET m == h[s]
            tr == m.trace
        IN  \A i \in DOMAIN tr :
                tr[i].e = "store_error" =>
                    /\ Len(tr) = i => m.pc = "generate"
                    /\ Len(tr) > i => tr[i + 1] = Ev("gemini", RequestBody(m.text), 0)
                    /\ Len(tr) = i + 1 => m.pc = "reply"
                    /\ Len(tr) > i + 1 =>
                          /\ tr[i + 2].e \in {"reply", "reply_failed"}
                          /\ tr[i + 2].a = m.response
                    /\ \A j \in DOMAIN tr :
                          (j > i /\ tr[j].e \in {"answer", "answer_failed"})
                              => tr[j - 1].e = "reply_failed"

\* C4 witness: a message whose store write failed and whose generated text
\* was nevertheless sent as the reply.
C4_Witness ==
    \E s \in Slots :
        /\ h[s].pc = "done"
        /\ "store_error" \in Events(h[s])
        /\ h[s].trace[Len(h[s].trace)] = MessageReply(h[s], h[s].response)

\* C5: a message handled without failure leaves exactly this trace: the typing
\* indicator, one committed row (sender id, text), then one call of the
\* generative client with the inbound text as prompt, then one outbound
\* message, a reply threaded to the inbound message that carries the value the
\* client returned.
C5_PipelineOrder ==
    \A s \in Slots :
        LET m == h[s]
        IN  (m.pc = "done" /\ NoFailure(m)) =>
                /\ m.trace = << Ev("chat_action", Null, 0),
                                Ev("insert", Str(m.text), m.user_id),
                                Ev("gemini", RequestBody(m.text), 0),
                                Ev("reply", m.response, m.msg_id) >>
                /\ m.msg_id > 0
                /\ BagIn(Row(m.user_id, m.text), store)
                /\ \E o \in HandlerOutcomes :
                      m.response = get_gemini_response(m.text, o).val

\* C5 witness: the reserved phrase handled end to end without failure.
C5_Witness ==
    \E s \in Slots :
        /\ h[s].pc = "done" /\ NoFailure(h[s])
        /\ h[s].text = TriggerText
        /\ h[s].response = Str("4")

\* C6: the typing indicator is best-effort: when send_chat_action fails the
\* handler goes on to persist the message, call the generative client and
\* send the generated text as the reply.
C6_TypingBestEffort ==
    \A s \in Slots :
        LET m == h[s]
        IN  "chat_action_failed" \in Events(m) =>
                /\ m.pc # "except"
                /\ Len(m.trace) > 1 => m.trace[2].e \in {"insert", "store_error"}
                /\ m.pc = "done" => {"gemini", "reply"} \subseteq Events(m)

\* Case folding of the inbound texts of the model.
Lower(t) ==
    CASE t = TriggerText -> TriggerLower
      [] t = PlainText   -> "what is 2+2?"
      [] OTHER           -> t

\* The static reply the specification gives for the reserved phrase.
AskQuestionPrompt == "Pozhalujsta, zadajte vash vopros"

\* C8: when the inbound text equals the reserved phrase, case-insensitively,
\* the generative client is never invoked for that message and the reply is
\* the static prompt-for-input message.
C8_TriggerShortCircuits ==
    \A s \in Slots :
        LET m == h[s]
        IN  Lower(m.text) = Lower(TriggerText) =>
                /\ "gemini" \notin Events(m)
                /\ (m.pc = "done" /\ ~Escaped(m))
                      => m.trace[Len(m.trace)] = MessageReply(m, Str(AskQuestionPrompt))

\* C10: every committed save adds one row; it raises the distinct-user count
\* by one when its user id was not recorded before and leaves it unchanged
\* otherwise; a health check changes nothing in the store and, when its query
\* goes through, answers the number of user ids recorded so far.
C10_DistinctUserCount ==
    [][ /\ store' # store =>
              \E u \in Users, t \in Texts :
                  /\ store' = store (+) SetToBag({Row(u, t)})
                  /\ recorded' = recorded \cup {u}
                  /\ get_users_count(store', TRUE) =
                        get_users_count(store, TRUE) + (IF u \in recorded THEN 0 ELSE 1)
        /\ health' # health =>
              /\ store' = store
              /\ health'.ok => health'.users = Cardinality(recorded)
      ]_vars

\* C10 witness: the health check has answered 1 with two rows of the same user
\* in the store.
C10_Witness ==
    /\ health = [ok |-> TRUE, users |-> 1]
    /\ Cardinality(recorded) = 1
    /\ BagCardinality(store) = 2

-----------------------------------------------------------------------------
\* Properties of lifespan and start_bot (specification SpecLife).

\* The receive loop is over: dp.start_polling has returned or raised.
PollingOver(p) == p \in {"returned", "failed", "closing", "exited"}

\* C3: bot.session is closed exactly once over a run, and only after the
\* receive loop has stopped or been cancelled, on every exit path.
C3_SessionClosedOnceAfterPolling ==
    /\ Len(closes) <= 1
    /\ \A i \in DOMAIN closes : PollingOver(closes[i].poll)
    /\ (proc = "exited" /\ life # "db_failed") => Len(closes) = 1

-----------------------------------------------------------------------------
\* Properties of get_gemini_response (specification SpecGemini).

\* C2: get_gemini_response never raises and always returns a text, whatever
\* the prompt and whatever the outcome of the external call.
C2_AlwaysReturnsText ==
    g.pc = "returned" => (g.result.exc = "" /\ g.result.val.k = "str")

TransportFailures ==
    {o \in Outcomes : o.kind = "conn_error" \/ (o.kind = "response" /\ o.status >= 400)}

\* C7: on a timeout the function returns a string of its own, different from
\* the one returned on a transport-level failure and from the generic one.
C7_TimeoutStringDistinct ==
    (g.pc = "returned" /\ g.outcome.kind = "timeout") =>
        /\ g.result.exc = "" /\ g.result.val.k = "str"
        /\ g.result.val # Str(GeminiErrorText)
        /\ \A o \in TransportFailures : get_gemini_response(g.prompt, o).val # g.result.val

\* The answer is a JSON object without candidates: no such field, or an empty list.
NoCandidates(o) ==
    /\ o.kind = "response" /\ o.status \in 200..299 /\ o.json
    /\ o.body.k = "dict"
    /\ \/ "candidates" \notin DOMAIN o.body.v
       \/ o.body.v["candidates"] = List(<<>>)

\* C9: a successful answer without candidates yields the "no answer" string.
C9_NoCandidatesNoAnswer ==
    (g.pc = "returned" /\ NoCandidates(g.outcome)) => g.result = Ret(Str(NoAnswerText))

====
